---- MODULE Spec2Model ----
(***************************************************************************)
(* Model of the two components of the repository that carry state:         *)
(*   - the task-based generation poller (create task, then poll status),   *)
(*   - the data-access layer over the `users` collection (models/user.ts), *)
(*     together with credit debits built on it.                            *)
(* Each component has its own specification (SpecPoller; SpecStore and    *)
(* SpecPaging; SpecCredits); the variables of the other components stay   *)
(* at their initial value.                                                 *)
(***************************************************************************)
EXTENDS Integers, Sequences, FiniteSets, TLC

VARIABLES
    \* ---- poller ----
    pc,             \* position of the poller in its async function
    createResponse, \* envelope the submission endpoint answered with
    taskId,         \* value bound by `const { data: { id: taskId } }`
    attempt,        \* loop counter of the polling loop
    waits,          \* number of completed setTimeout(pollInterval) waits
    elapsed,        \* milliseconds spent in those waits
    queries,        \* number of status queries issued
    queriedIds,     \* the task ids those queries were issued for
    pending,        \* number of status polls that answered pending/processing
    statusResponse, \* envelope of the last status query
    returned,       \* value the poller returned (the artifact), if any
    thrown,         \* message of the error the poller threw, if any
    \* ---- data-access layer ----
    users,          \* rows of the `users` collection, in insertion order
    op,             \* the last data-access call: its name and arguments
    sent,           \* the queries that call issued to the store
    ret,            \* what that call gave its caller
    scan,           \* the run of consecutive getUsers pages fetched so far
    inserted,       \* per uuid: the record given to insertUser and the row it
                    \* returned, for the users not updated since
    \* ---- credit debits ----
    userCredits,    \* the UserCredits record of one user
    dpc,            \* position of each debit attempt
    damount,        \* amount each debit attempt asks for
    dread,          \* balance each debit attempt read
    applied         \* amount each debit attempt applied (0: none)

pollerVars == <<pc, createResponse, taskId, attempt, waits, elapsed, queries,
                queriedIds, pending, statusResponse, returned, thrown>>
storeVars == <<users, op, sent, ret, scan, inserted>>
debitVars == <<userCredits, dpc, damount, dread, applied>>
vars == <<pollerVars, storeVars, debitVars>>

(***************************************************************************)
(* Generation task poller (the task-based generation pattern).             *)
(***************************************************************************)

maxAttempts == 120
pollInterval == 2000
\* The envelope's distinguished success code, and one code that differs.
SuccessCode == 1000
OtherCode == SuccessCode + 1
\* Longest result list a status response carries.
MaxResults == 2

Urls == {"url1", "url2"}
None == "none"
Undefined == "undefined"

\* The `data` member of a submission envelope: missing, an object without an
\* id, or an object with the task id.
CreateData ==
    { [present |-> FALSE, id |-> Undefined],
      [present |-> TRUE, id |-> Undefined],
      [present |-> TRUE, id |-> "t1"] }

CreateResponses == [code : {SuccessCode, OtherCode}, data : CreateData]

NoResponse == [code |-> 0, present |-> FALSE, status |-> None,
               hasResults |-> FALSE, results |-> <<>>]

ResultLists == UNION { [1..n -> Urls] : n \in 0..MaxResults }

\* The status envelope: `data` missing, or data = {status, results?}.
StatusResponses ==
    { [code |-> c, present |-> FALSE, status |-> None,
       hasResults |-> FALSE, results |-> <<>>] : c \in {SuccessCode, OtherCode} }
    \cup
    { [code |-> c, present |-> TRUE, status |-> s,
       hasResults |-> FALSE, results |-> <<>>] :
         c \in {SuccessCode, OtherCode},
         s \in {"pending", "processing", "completed", "failed"} }
    \cup
    { [code |-> c, present |-> TRUE, status |-> "completed",
       hasResults |-> TRUE, results |-> r] :
         c \in {SuccessCode, OtherCode}, r \in ResultLists }

InitPollerVars ==
    /\ pc = "SUBMITTED"
    /\ createResponse = [code |-> 0, data |-> [present |-> FALSE, id |-> Undefined]]
    /\ taskId = None
    /\ attempt = 0
    /\ waits = 0
    /\ elapsed = 0
    /\ queries = 0
    /\ queriedIds = {}
    /\ pending = 0
    /\ statusResponse = NoResponse
    /\ returned = None
    /\ thrown = None

\* const { data: { id: taskId } } = await createResponse.json();
\* Destructuring `id` out of a missing `data` throws a TypeError; out of an
\* object without `id` it binds undefined.
Destructure(resp) ==
    IF resp.data.present
    THEN [threw |-> FALSE, taskId |-> resp.data.id]
    ELSE [threw |-> TRUE, taskId |-> None]

Submit(resp) ==
    /\ pc = "SUBMITTED"
    /\ createResponse' = resp
    /\ LET d == Destructure(resp) IN
         IF d.threw
         THEN /\ thrown' = "TypeError"
              /\ pc' = "done"
              /\ taskId' = taskId
         ELSE /\ taskId' = d.taskId
              /\ pc' = "loop"
              /\ thrown' = thrown
    /\ UNCHANGED <<attempt, waits, elapsed, queries, queriedIds, pending,
                   statusResponse, returned>>

\* Mutation of LoopGuard: the loop runs one iteration too many.
LoopGuard_OffByOne == attempt <= maxAttempts

\* for (...; attempt < maxAttempts; ...) { await setTimeout(pollInterval) ...
LoopGuard == attempt < maxAttempts

Wait ==
    /\ pc = "loop"
    /\ LoopGuard
    /\ waits' = waits + 1
    /\ elapsed' = elapsed + pollInterval
    /\ pc' = "query"
    /\ UNCHANGED <<createResponse, taskId, attempt, queries, queriedIds, pending,
                   statusResponse, returned, thrown>>

\* Mutation of HandleStatus: a completed task yields the last result.
HandleStatus_LastResult(resp) ==
    IF ~resp.present
    THEN [kind |-> "throw", value |-> "TypeError"]
    ELSE IF resp.status = "completed"
    THEN IF ~resp.hasResults
         THEN [kind |-> "throw", value |-> "TypeError"]
         ELSE IF resp.results = <<>>
         THEN [kind |-> "return", value |-> Undefined]
         ELSE [kind |-> "return", value |-> resp.results[Len(resp.results)]]
    ELSE IF resp.status = "failed"
    THEN [kind |-> "throw", value |-> "Generation failed"]
    ELSE [kind |-> "continue", value |-> None]

\* Mutation of HandleStatus: the `failed` branch is missing.
HandleStatus_IgnoreFailed(resp) ==
    IF ~resp.present
    THEN [kind |-> "throw", value |-> "TypeError"]
    ELSE IF resp.status = "completed"
    THEN IF ~resp.hasResults
         THEN [kind |-> "throw", value |-> "TypeError"]
         ELSE IF resp.results = <<>>
         THEN [kind |-> "return", value |-> Undefined]
         ELSE [kind |-> "return", value |-> resp.results[1]]
    ELSE [kind |-> "continue", value |-> None]

\* What one loop body does with the status envelope it received.
\*   const { data: taskData } = await statusResponse.json();
\*   taskData.status === 'completed' -> return taskData.results[0]
\*   taskData.status === 'failed'    -> throw new Error('Generation failed')
\* Reading `.status` of a missing data, or `[0]` of a missing result list,
\* throws a TypeError; `[0]` of an empty list is undefined.
HandleStatus(resp) ==
    IF ~resp.present
    THEN [kind |-> "throw", value |-> "TypeError"]
    ELSE IF resp.status = "completed"
    THEN IF ~resp.hasResults
         THEN [kind |-> "throw", value |-> "TypeError"]
         ELSE IF resp.results = <<>>
         THEN [kind |-> "return", value |-> Undefined]
         ELSE [kind |-> "return", value |-> resp.results[1]]
    ELSE IF resp.status = "failed"
    THEN [kind |-> "throw", value |-> "Generation failed"]
    ELSE [kind |-> "continue", value |-> None]

\* A status that is neither completed nor failed leaves the loop running.
NonTerminal(resp) == resp.present /\ resp.status \in {"pending", "processing"}

Query(resp) ==
    /\ pc = "query"
    /\ queries' = queries + 1
    /\ queriedIds' = queriedIds \cup {taskId}
    /\ statusResponse' = resp
    /\ pending' = IF NonTerminal(resp) THEN pending + 1 ELSE pending
    /\ LET h == HandleStatus(resp) IN
         /\ returned' = IF h.kind = "return" THEN h.value ELSE returned
         /\ thrown' = IF h.kind = "throw" THEN h.value ELSE thrown
         /\ pc' = IF h.kind = "continue" THEN "loop" ELSE "done"
         /\ attempt' = IF h.kind = "continue" THEN attempt + 1 ELSE attempt
    /\ UNCHANGED <<createResponse, taskId, waits, elapsed>>

\* throw new Error('Task timeout');
Timeout ==
    /\ pc = "loop"
    /\ ~LoopGuard
    /\ thrown' = "Task timeout"
    /\ pc' = "done"
    /\ UNCHANGED <<createResponse, taskId, attempt, waits, elapsed, queries,
                   queriedIds, pending, statusResponse, returned>>

\* The state of the poller's state machine, read off the async function.
PollerState ==
    IF pc = "SUBMITTED" THEN "SUBMITTED"
    ELSE IF pc \in {"loop", "query"} THEN "POLLING"
    ELSE IF returned # None THEN "COMPLETED"
    ELSE IF thrown = "Task timeout" THEN "TIMED_OUT"
    ELSE "FAILED"

(***************************************************************************)
(* Data-access layer (models/user.ts) over the hosted relational store.    *)
(* A row of `users` carries the fields of the User type that the calls     *)
(* below read or write.  created_at is a timestamp counted in ticks.       *)
(***************************************************************************)

Uuids == {"u1", "u2", "u3"}
Emails == {"a@x", "b@x"}
Providers == {"", "google"}
Nicknames == {"n1", "n2"}
Times == {0, 1, 2}

NoError == "ok"
\* PostgREST's code for "the result is not exactly one row".
NoRows == "PGRST116"
\* A unique-constraint violation, and any other failure of the store.
Conflict == "23505"
Outage == "08006"

\* ---- what a call gives its caller ----
RetNone == [kind |-> "none", rows |-> <<>>, n |-> 0]
RetNull == [kind |-> "null", rows |-> <<>>, n |-> 0]
RetRow(r) == [kind |-> "row", rows |-> <<r>>, n |-> 0]
RetRows(rs) == [kind |-> "rows", rows |-> rs, n |-> 0]
RetThrow(e) == [kind |-> "throw:" \o e, rows |-> <<>>, n |-> 0]
\* `return data as User | null`
RetData(data) == IF data = <<>> THEN RetNull ELSE RetRow(data[1])

\* ---- the store ----
\* The rows of a table that pass every .eq(field, value) filter.
EqFilter(rows, eqs) ==
    SelectSeq(rows, LAMBDA r : \A f \in eqs : r[f[1]] = f[2])

\* .in("uuid", uuids)
InFilter(rows, uuids) == SelectSeq(rows, LAMBDA r : r.uuid \in uuids)

\* .single(): exactly one row, or the error PGRST116 and no data.
Single(rows) ==
    IF Len(rows) = 1
    THEN [error |-> NoError, data |-> rows]
    ELSE [error |-> NoRows, data |-> <<>>]

\* A response of the store when it cannot serve the request.
Failed == [error |-> Outage, data |-> <<>>]

Arrangements(rows) ==
    { [i \in 1..Len(rows) |-> rows[f[i]]] :
        f \in { g \in [1..Len(rows) -> 1..Len(rows)] :
                  \A i, j \in 1..Len(rows) : i # j => g[i] # g[j] } }

\* .order("created_at", { ascending }): every arrangement of the rows that is
\* sorted on created_at; rows with equal created_at come in any order.
Ordered(rows, ascending) ==
    { s \in Arrangements(rows) :
        \A i \in 1..(Len(s) - 1) :
            IF ascending THEN s[i].created_at <= s[i + 1].created_at
            ELSE s[i].created_at >= s[i + 1].created_at }

\* .range(from, to): the rows at offsets from..to, both inclusive, from 0.
Range(rows, from, to) ==
    IF from < 0 \/ to < from THEN <<>>
    ELSE SubSeq(rows, from + 1, IF to + 1 < Len(rows) THEN to + 1 ELSE Len(rows))

\* The uniqueness constraints of `users`: uuid, and (email, signin_provider).
Violates(rows, r) ==
    \E i \in 1..Len(rows) :
        \/ rows[i].uuid = r.uuid
        \/ rows[i].email = r.email /\ rows[i].signin_provider = r.signin_provider

\* The row the store keeps for an inserted record: the record's own fields
\* plus the generated id and the column default of credits.
Stored(rows, user) ==
    [id |-> Len(rows) + 1, uuid |-> user.uuid, email |-> user.email,
     signin_provider |-> user.signin_provider, nickname |-> user.nickname,
     credits |-> 0, created_at |-> user.created_at]

\* .insert([user]).select().single()
StoreInsert(rows, user, up) ==
    IF ~up THEN [table |-> rows, resp |-> Failed]
    ELSE IF Violates(rows, user)
    THEN [table |-> rows, resp |-> [error |-> Conflict, data |-> <<>>]]
    ELSE [table |-> Append(rows, Stored(rows, user)),
          resp |-> Single(<<Stored(rows, user)>>)]

\* Mutation of Patch: the row is replaced by the update, so that a field the
\* update does not name falls back to its default.
Patch_Replace(r, updates) ==
    [f \in DOMAIN r |-> IF f \in DOMAIN updates THEN updates[f]
                        ELSE IF f = "nickname" THEN "n1" ELSE r[f]]

\* A row with the fields named in `updates` replaced.
Patch(r, updates) ==
    [f \in DOMAIN r |-> IF f \in DOMAIN updates THEN updates[f] ELSE r[f]]

\* .update(updates).eq("uuid", uuid).select().single()
StoreUpdate(rows, uuid, updates, up) ==
    LET hit == { i \in 1..Len(rows) : rows[i].uuid = uuid }
        new == [i \in 1..Len(rows) |->
                   IF i \in hit THEN Patch(rows[i], updates) ELSE rows[i]]
        clash == \E i \in hit : \E j \in 1..Len(rows) :
                    /\ j # i
                    /\ \/ new[j].uuid = new[i].uuid
                       \/ /\ new[j].email = new[i].email
                          /\ new[j].signin_provider = new[i].signin_provider
    IN  IF ~up THEN [table |-> rows, resp |-> Failed]
        ELSE IF clash
        THEN [table |-> rows, resp |-> [error |-> Conflict, data |-> <<>>]]
        ELSE [table |-> new, resp |-> Single(EqFilter(new, {<<"uuid", uuid>>}))]

\* ---- the requests the calls issue ----
Select(eqs, order, range, single) ==
    [verb |-> "select", table |-> "users", eq |-> eqs, hasIn |-> FALSE, in |-> {},
     gte |-> <<>>, order |-> order, range |-> range, single |-> single]

SelectIn(uuids) ==
    [verb |-> "select", table |-> "users", eq |-> {}, hasIn |-> TRUE, in |-> uuids,
     gte |-> <<>>, order |-> "none", range |-> <<>>, single |-> FALSE]

Insert(user) == [verb |-> "insert", table |-> "users", row |-> user, single |-> TRUE]

Update(uuid, updates) ==
    [verb |-> "update", table |-> "users", eq |-> {<<"uuid", uuid>>},
     set |-> updates, single |-> TRUE]

\* The responses the store may give to a select: the matching rows, arranged
\* as the request orders them (any arrangement where it does not), cut to
\* the requested range; or a failure when the store cannot serve it.
StoreSelect(rows, req, up) ==
    IF ~up THEN {Failed}
    ELSE LET byEq == EqFilter(rows, req.eq)
             byIn == IF req.hasIn THEN InFilter(byEq, req.in) ELSE byEq
             match == IF req.gte = <<>> THEN byIn
                      ELSE SelectSeq(byIn, LAMBDA r : r.created_at >= req.gte[1])
             arranged == IF req.order = "none" THEN Arrangements(match)
                         ELSE Ordered(match, req.order = "asc")
         IN  { LET cut == IF req.range = <<>> THEN a
                          ELSE Range(a, req.range[1], req.range[2])
               IN  IF req.single THEN Single(cut)
                   ELSE [error |-> NoError, data |-> cut] : a \in arranged }

NoOp == [name |-> "none"]
NoScan == [limit |-> 0, pages |-> 0, rows |-> <<>>, ended |-> FALSE]

InitStoreVars ==
    /\ users = <<>>
    /\ op = NoOp
    /\ sent = <<>>
    /\ ret = RetNone
    /\ scan = NoScan
    /\ inserted = <<>>

\* ---- insertUser ----
\* Mutation of InsertUserRet: an error is swallowed instead of thrown.
InsertUserRet_Swallow(resp) ==
    IF resp.error # NoError THEN RetNull ELSE RetRow(resp.data[1])

\* if (error) throw error; return data as User
InsertUserRet(resp) ==
    IF resp.error # NoError THEN RetThrow(resp.error) ELSE RetRow(resp.data[1])

insertUser(user, up) ==
    LET r == StoreInsert(users, user, up) IN
    /\ op' = [name |-> "insertUser", user |-> user, up |-> up]
    /\ sent' = <<Insert(user)>>
    /\ users' = r.table
    /\ ret' = InsertUserRet(r.resp)
    /\ scan' = NoScan
    /\ inserted' = IF r.resp.error # NoError THEN inserted
                   ELSE [u \in DOMAIN inserted \cup {user.uuid} |->
                           IF u = user.uuid
                           THEN [user |-> user, row |-> r.resp.data[1]]
                           ELSE inserted[u]]

\* ---- findUserByEmail ----
\* Mutation of Truthy: only a missing value counts as falsy.
Truthy_OnlyUndefined(value) == value # Undefined

\* `if (provider)`: undefined and the empty string are both falsy.
Truthy(value) == value # Undefined /\ value # ""

FindUserByEmailQuery(email, provider) ==
    Select(IF Truthy(provider)
           THEN {<<"email", email>>, <<"signin_provider", provider>>}
           ELSE {<<"email", email>>},
           "none", <<>>, TRUE)

\* Mutation of FindUserRet: a store error is thrown to the caller.
FindUserRet_Throws(resp) ==
    IF resp.error # NoError /\ resp.error # NoRows THEN RetThrow(resp.error)
    ELSE RetData(resp.data)

\* if (error && error.code !== "PGRST116") return null; return data
FindUserRet(resp) ==
    IF resp.error # NoError /\ resp.error # NoRows THEN RetNull
    ELSE RetData(resp.data)

findUserByEmail(email, provider, up) ==
    /\ op' = [name |-> "findUserByEmail", email |-> email, provider |-> provider,
              up |-> up]
    /\ sent' = <<FindUserByEmailQuery(email, provider)>>
    /\ \E resp \in StoreSelect(users, FindUserByEmailQuery(email, provider), up) :
           ret' = FindUserRet(resp)
    /\ scan' = NoScan
    /\ UNCHANGED <<users, inserted>>

\* ---- findUserByUuid ----
\* Mutation of FindUserByUuidQuery: the .eq("uuid", uuid) filter is missing.
FindUserByUuidQuery_NoFilter(uuid) == Select({}, "none", <<>>, TRUE)

FindUserByUuidQuery(uuid) == Select({<<"uuid", uuid>>}, "none", <<>>, TRUE)

findUserByUuid(uuid, up) ==
    /\ op' = [name |-> "findUserByUuid", uuid |-> uuid, up |-> up]
    /\ sent' = <<FindUserByUuidQuery(uuid)>>
    /\ \E resp \in StoreSelect(users, FindUserByUuidQuery(uuid), up) :
           ret' = FindUserRet(resp)
    /\ scan' = NoScan
    /\ UNCHANGED <<users, inserted>>

\* ---- updateUser ----
\* if (error) return null; return data as User
UpdateUserRet(resp) ==
    IF resp.error # NoError THEN RetNull ELSE RetRow(resp.data[1])

updateUser(uuid, updates, up) ==
    LET r == StoreUpdate(users, uuid, updates, up) IN
    /\ op' = [name |-> "updateUser", uuid |-> uuid, updates |-> updates, up |-> up]
    /\ sent' = <<Update(uuid, updates)>>
    /\ users' = r.table
    /\ ret' = UpdateUserRet(r.resp)
    /\ scan' = NoScan
    /\ inserted' = IF r.resp.error # NoError THEN inserted
                   ELSE [u \in DOMAIN inserted \ {uuid} |-> inserted[u]]

\* ---- getUsers ----
DefaultPage == 1
DefaultLimit == 50

\* The value of a parameter that has a default.
Param(arg, default) == IF arg = <<>> THEN default ELSE arg[1]

\* Mutation of Offset: pages are counted from 0.
Offset_FromZero(page, limit) == page * limit

\* const offset = (page - 1) * limit;
Offset(page, limit) == (page - 1) * limit

\* .order("created_at", { ascending: false }).range(offset, offset + limit - 1)
GetUsersQuery(page, limit) ==
    Select({}, "desc",
           <<Offset(page, limit), Offset(page, limit) + limit - 1>>, FALSE)

\* if (error) return []; return data as User[]
GetRowsRet(resp) ==
    IF resp.error # NoError THEN RetRows(<<>>) ELSE RetRows(resp.data)

\* The run of pages fetched by consecutive getUsers calls: page 1 starts a
\* run, the next page with the same limit extends it.
NextScan(page, limit, resp) ==
    IF resp.error # NoError THEN NoScan
    ELSE IF page = 1
    THEN [limit |-> limit, pages |-> 1, rows |-> resp.data,
          ended |-> Len(resp.data) < limit]
    ELSE IF scan.pages = page - 1 /\ scan.limit = limit /\ ~scan.ended
    THEN [limit |-> limit, pages |-> page, rows |-> scan.rows \o resp.data,
          ended |-> Len(resp.data) < limit]
    ELSE NoScan

getUsers(pageArg, limitArg, up) ==
    LET page == Param(pageArg, DefaultPage)
        limit == Param(limitArg, DefaultLimit)
    IN  /\ op' = [name |-> "getUsers", pageArg |-> pageArg, limitArg |-> limitArg,
                  page |-> page, limit |-> limit, up |-> up]
        /\ sent' = <<GetUsersQuery(page, limit)>>
        /\ \E resp \in StoreSelect(users, GetUsersQuery(page, limit), up) :
               /\ ret' = GetRowsRet(resp)
               /\ scan' = NextScan(page, limit, resp)
        /\ UNCHANGED <<users, inserted>>

\* ---- getUsersByUuids ----
\* Mutation of NothingToFetch: only a missing list returns early.
NothingToFetch_OnlyMissing(uuidsArg) == uuidsArg = <<>>

\* if (!uuids || uuids.length === 0) return [];
NothingToFetch(uuidsArg) == uuidsArg = <<>> \/ uuidsArg[1] = {}

getUsersByUuids(uuidsArg, up) ==
    /\ op' = [name |-> "getUsersByUuids", uuids |-> uuidsArg, up |-> up]
    /\ IF NothingToFetch(uuidsArg)
       THEN /\ sent' = <<>>
            /\ ret' = RetRows(<<>>)
       ELSE /\ sent' = <<SelectIn(uuidsArg[1])>>
            /\ \E resp \in StoreSelect(users, SelectIn(uuidsArg[1]), up) :
                   ret' = GetRowsRet(resp)
    /\ scan' = NoScan
    /\ UNCHANGED <<users, inserted>>

\* ---- getUsersTotal ----
RetUndefined == [kind |-> "undefined", rows |-> <<>>, n |-> 0]
RetNumber(n) == [kind |-> "number", rows |-> <<>>, n |-> n]

\* supabase.from("users").select("id")
GetUsersTotalQuery == Select({}, "none", <<>>, FALSE)

\* if (error) return undefined; return data?.length || 0
GetUsersTotalRet(resp) ==
    IF resp.error # NoError THEN RetUndefined ELSE RetNumber(Len(resp.data))

getUsersTotal(up) ==
    /\ op' = [name |-> "getUsersTotal", up |-> up]
    /\ sent' = <<GetUsersTotalQuery>>
    /\ \E resp \in StoreSelect(users, GetUsersTotalQuery, up) :
           ret' = GetUsersTotalRet(resp)
    /\ scan' = NoScan
    /\ UNCHANGED <<users, inserted>>

\* ---- getUserCountByDate ----
\* The text the store gives for a created_at: an ISO timestamp in UTC, here
\* cut into the date, the letter T and the time of day.
Iso ==
    [t \in Times |->
        CASE t = 0 -> <<"2024-01-01", "T", "03:00:00+00:00">>
          [] t = 1 -> <<"2024-01-01", "T", "23:00:00+00:00">>
          [] t = 2 -> <<"2024-01-02", "T", "03:00:00+00:00">>]

\* Mutation of DatePart: the timestamp is not split.
DatePart_Whole(text) == text

\* created_at.split("T")[0]: the text before the first T.
DatePart(text) ==
    LET cut == { i \in 1..Len(text) : text[i] = "T" }
    IN  IF cut = {} THEN text
        ELSE SubSeq(text, 1, (CHOOSE i \in cut : \A j \in cut : i <= j) - 1)

\* .select("created_at").gte("created_at", startTime)
\*    .order("created_at", { ascending: true })
GetUserCountByDateQuery(startTime) ==
    [verb |-> "select", table |-> "users", eq |-> {}, hasIn |-> FALSE, in |-> {},
     gte |-> <<startTime>>, order |-> "asc", range |-> <<>>, single |-> FALSE]

\* data.forEach(item => dateCountMap.set(date, (dateCountMap.get(date) || 0) + 1))
RECURSIVE CountByDate(_, _)
CountByDate(data, dateCountMap) ==
    IF data = <<>> THEN dateCountMap
    ELSE LET date == DatePart(Iso[Head(data).created_at])
             count == IF date \in DOMAIN dateCountMap THEN dateCountMap[date] ELSE 0
         IN  CountByDate(Tail(data),
                         [d \in DOMAIN dateCountMap \cup {date} |->
                             IF d = date THEN count + 1 ELSE dateCountMap[d]])

RetMap(dateCountMap) == [kind |-> "map", rows |-> <<>>, n |-> 0, map |-> dateCountMap]

\* if (error) return undefined; ... return dateCountMap
GetUserCountByDateRet(resp) ==
    IF resp.error # NoError THEN RetUndefined
    ELSE RetMap(CountByDate(resp.data, <<>>))

getUserCountByDate(startTime, up) ==
    /\ op' = [name |-> "getUserCountByDate", startTime |-> startTime, up |-> up]
    /\ sent' = <<GetUserCountByDateQuery(startTime)>>
    /\ \E resp \in StoreSelect(users, GetUserCountByDateQuery(startTime), up) :
           ret' = GetUserCountByDateRet(resp)
    /\ scan' = NoScan
    /\ UNCHANGED <<users, inserted>>

(***************************************************************************)
(* Credit debits.  The data layer has no debit call of its own: a debit    *)
(* reads the balance, checks it covers the amount, and writes the new      *)
(* balance with the unconditional partial update that updateUser issues.   *)
(* Each of the concurrent attempts is one request handler; the store       *)
(* serves their reads and writes one at a time, in any order.              *)
(***************************************************************************)

Procs == {"p1", "p2"}
\* Largest opening balance, and largest amount of one debit.
MaxCredits == 3
MaxDebit == 2

\* A UserCredits record opens with all its granted credits left.
InitDebitVars(balances) ==
    /\ userCredits \in { [user_uuid |-> "u1", credits |-> n, left_credits |-> n] :
                           n \in balances }
    /\ dpc = [p \in Procs |-> "idle"]
    /\ damount = [p \in Procs |-> 0]
    /\ dread = [p \in Procs |-> 0]
    /\ applied = [p \in Procs |-> 0]

\* A debit attempt starts: it reads the remaining balance.
DebitRead(p, amount) ==
    /\ dpc[p] = "idle"
    /\ damount' = [damount EXCEPT ![p] = amount]
    /\ dread' = [dread EXCEPT ![p] = userCredits.left_credits]
    /\ dpc' = [dpc EXCEPT ![p] = "read"]
    /\ UNCHANGED <<userCredits, applied>>

\* The attempt gives up when the balance it read does not cover the amount.
DebitReject(p) ==
    /\ dpc[p] = "read"
    /\ dread[p] < damount[p]
    /\ dpc' = [dpc EXCEPT ![p] = "done"]
    /\ UNCHANGED <<userCredits, damount, dread, applied>>

\* Otherwise it writes the balance it computed: .update({left_credits}).
\* A failed write leaves the record as it is and applies nothing.
DebitWrite(p, up) ==
    /\ dpc[p] = "read"
    /\ dread[p] >= damount[p]
    /\ userCredits' = IF up
                      THEN Patch(userCredits, [left_credits |-> dread[p] - damount[p]])
                      ELSE userCredits
    /\ applied' = [applied EXCEPT ![p] = IF up THEN damount[p] ELSE 0]
    /\ dpc' = [dpc EXCEPT ![p] = "done"]
    /\ UNCHANGED <<damount, dread>>

RECURSIVE Sum(_, _)
Sum(f, S) == IF S = {} THEN 0
             ELSE LET x == CHOOSE y \in S : TRUE IN f[x] + Sum(f, S \ {x})

\* The debits applied so far, in total.
TotalApplied == Sum(applied, Procs)

(***************************************************************************)
(* Specification of the poller.                                            *)
(***************************************************************************)

InitPoller == InitPollerVars /\ InitStoreVars /\ InitDebitVars({0})

NextPoller ==
    \/ \E resp \in CreateResponses : Submit(resp) /\ UNCHANGED <<storeVars, debitVars>>
    \/ Wait /\ UNCHANGED <<storeVars, debitVars>>
    \/ \E resp \in StatusResponses : Query(resp) /\ UNCHANGED <<storeVars, debitVars>>
    \/ Timeout /\ UNCHANGED <<storeVars, debitVars>>

SpecPoller == InitPoller /\ [][NextPoller]_vars

\* The poller when every timer fires and every request is answered: a step
\* that can be taken is eventually taken.
SpecPollerFair == SpecPoller /\ WF_vars(NextPoller)

(***************************************************************************)
(* Specifications of the data-access layer.  SpecStore exercises every     *)
(* call on records that differ in every field; SpecPaging fills the        *)
(* collection with up to three users that differ in uuid and created_at    *)
(* and reads it page by page.                                              *)
(***************************************************************************)

MaxPage == 3
MaxLimit == 2

StoreUsers ==
    [uuid : {"u1", "u2"}, email : Emails, signin_provider : Providers,
     nickname : {"n1"}, created_at : {0}]

PagingUsers ==
    { [uuid |-> u, email |-> u \o "@x", signin_provider |-> "google",
       nickname |-> "n1", created_at |-> t] : u \in Uuids, t \in Times }

Updates ==
    { [nickname |-> n] : n \in Nicknames } \cup { [email |-> e] : e \in Emails }

PageArgs == {<<>>} \cup { <<n>> : n \in 1..MaxPage }
LimitArgs == {<<>>} \cup { <<n>> : n \in 1..MaxLimit }
UuidsArgs == {<<>>} \cup { <<S>> : S \in SUBSET Uuids }

InitStore == InitPollerVars /\ InitStoreVars /\ InitDebitVars({0})

NextStore ==
    \/ \E user \in StoreUsers, up \in BOOLEAN :
           insertUser(user, up) /\ UNCHANGED <<pollerVars, debitVars>>
    \/ \E email \in Emails, provider \in Providers \cup {Undefined}, up \in BOOLEAN :
           findUserByEmail(email, provider, up) /\ UNCHANGED <<pollerVars, debitVars>>
    \/ \E uuid \in Uuids, up \in BOOLEAN :
           findUserByUuid(uuid, up) /\ UNCHANGED <<pollerVars, debitVars>>
    \/ \E uuid \in Uuids, updates \in Updates, up \in BOOLEAN :
           updateUser(uuid, updates, up) /\ UNCHANGED <<pollerVars, debitVars>>
    \/ \E uuidsArg \in UuidsArgs, up \in BOOLEAN :
           getUsersByUuids(uuidsArg, up) /\ UNCHANGED <<pollerVars, debitVars>>

SpecStore == InitStore /\ [][NextStore]_vars

NextPaging ==
    \/ \E user \in PagingUsers, up \in BOOLEAN :
           insertUser(user, up) /\ UNCHANGED <<pollerVars, debitVars>>
    \/ \E pageArg \in PageArgs, limitArg \in LimitArgs, up \in BOOLEAN :
           getUsers(pageArg, limitArg, up) /\ UNCHANGED <<pollerVars, debitVars>>

SpecPaging == InitStore /\ [][NextPaging]_vars

\* Every call of the layer over the users of PagingUsers.
PagingEmails == { u.email : u \in PagingUsers }

NextReads ==
    \/ \E user \in PagingUsers, up \in BOOLEAN :
           insertUser(user, up) /\ UNCHANGED <<pollerVars, debitVars>>
    \/ \E email \in PagingEmails, provider \in {Undefined, "google"}, up \in BOOLEAN :
           findUserByEmail(email, provider, up) /\ UNCHANGED <<pollerVars, debitVars>>
    \/ \E uuid \in Uuids, up \in BOOLEAN :
           findUserByUuid(uuid, up) /\ UNCHANGED <<pollerVars, debitVars>>
    \/ \E up \in BOOLEAN :
           getUsersTotal(up) /\ UNCHANGED <<pollerVars, debitVars>>
    \/ \E startTime \in Times, up \in BOOLEAN :
           getUserCountByDate(startTime, up) /\ UNCHANGED <<pollerVars, debitVars>>
    \/ \E pageArg \in PageArgs, limitArg \in LimitArgs, up \in BOOLEAN :
           getUsers(pageArg, limitArg, up) /\ UNCHANGED <<pollerVars, debitVars>>
    \/ \E uuidsArg \in UuidsArgs, up \in BOOLEAN :
           getUsersByUuids(uuidsArg, up) /\ UNCHANGED <<pollerVars, debitVars>>

SpecReads == InitStore /\ [][NextReads]_vars

(***************************************************************************)
(* Specification of concurrent credit debits.                              *)
(***************************************************************************)

InitCredits == InitPollerVars /\ InitStoreVars /\ InitDebitVars(0..MaxCredits)

NextCredits ==
    \/ \E p \in Procs, amount \in 1..MaxDebit :
           DebitRead(p, amount) /\ UNCHANGED <<pollerVars, storeVars>>
    \/ \E p \in Procs : DebitReject(p) /\ UNCHANGED <<pollerVars, storeVars>>
    \/ \E p \in Procs, up \in BOOLEAN :
           DebitWrite(p, up) /\ UNCHANGED <<pollerVars, storeVars>>

SpecCredits == InitCredits /\ [][NextCredits]_vars

(***************************************************************************)
(* Properties of the poller.                                               *)
(***************************************************************************)

\* C1: when all maxAttempts (120) status polls answered pending/processing,
\* the poller never holds an artifact, and once it has ended it is TIMED_OUT
\* with the error 'Task timeout', which is not the error 'Generation failed'.
C1_TimeoutAfterAllPolls ==
    pending = maxAttempts =>
        /\ queries = maxAttempts
        /\ returned = None
        /\ pc # "query"
        /\ pc = "done" =>
             /\ PollerState = "TIMED_OUT"
             /\ thrown = "Task timeout"
             /\ thrown # "Generation failed"

C1_Witness ==
    /\ pc = "done"
    /\ pending = maxAttempts
    /\ queries = maxAttempts
    /\ thrown = "Task timeout"

\* C2: every status query is preceded by exactly one interval wait, and when
\* the first k-1 polls answered pending/processing and the k-th answered
\* completed with a non-empty result list, the poller is COMPLETED with the
\* first element of that list after exactly k waits (k * pollInterval ms) and
\* exactly k queries, k in 1..maxAttempts.
C2_CompletionAfterKPolls ==
    /\ waits = queries + (IF pc = "query" THEN 1 ELSE 0)
    /\ elapsed = waits * pollInterval
    /\ ( /\ pc = "done"
         /\ statusResponse.present
         /\ statusResponse.status = "completed"
         /\ statusResponse.hasResults
         /\ statusResponse.results # <<>> )
       => /\ PollerState = "COMPLETED"
          /\ returned = Head(statusResponse.results)
          /\ thrown = None
          /\ queries = pending + 1
          /\ queries \in 1..maxAttempts
          /\ waits = queries
          /\ elapsed = queries * pollInterval

\* Three polls answer pending/processing, the fourth completed with
\* results = ["url1"]: "url1" after 4 intervals.
C2_Witness ==
    /\ pc = "done"
    /\ taskId = "t1"
    /\ pending = 3
    /\ queries = 4
    /\ statusResponse.results = <<"url1">>
    /\ returned = "url1"
    /\ elapsed = 4 * pollInterval

\* C3: a step in which a status poll answers `failed` ends the poller in
\* FAILED with an error and without an artifact, and an ended poller issues
\* no further status query.
C3_FailedPollEndsPoller ==
    [][ /\ ( /\ queries' = queries + 1
             /\ statusResponse'.present
             /\ statusResponse'.status = "failed" )
           => /\ pc' = "done"
              /\ thrown' = "Generation failed"
              /\ returned' = None
        /\ pc = "done" => /\ queries' = queries
                          /\ waits' = waits
                          /\ pc' = "done" ]_vars

C3_Witness ==
    /\ pc = "done"
    /\ queries = 3
    /\ statusResponse.present
    /\ statusResponse.status = "failed"
    /\ PollerState = "FAILED"
    /\ thrown = "Generation failed"
    /\ returned = None

\* An envelope that reports a failure and carries no task identifier.
ErrorEnvelope(resp) == resp.code # SuccessCode /\ resp.data.id = Undefined

\* C4: after the submission endpoint answered with an error envelope instead
\* of a task identifier, the poller is FAILED and has neither waited an
\* interval nor issued a status query.
C4_SubmissionFailureNeverPolls ==
    (pc # "SUBMITTED" /\ ErrorEnvelope(createResponse)) =>
        /\ PollerState = "FAILED"
        /\ waits = 0
        /\ queries = 0

\* C5: a submission or status response whose code is not 1000 is a failure:
\* once the poller has handled one it is FAILED; it is never COMPLETED and
\* never still polling on the basis of such a response.
C5_NonSuccessCodeIsFailure ==
    /\ (pc # "SUBMITTED" /\ createResponse.code # SuccessCode) =>
           PollerState = "FAILED" /\ queries = 0
    /\ (queries > 0 /\ statusResponse.code # SuccessCode) =>
           PollerState = "FAILED"

(***************************************************************************)
(* Properties of credit debits.                                            *)
(***************************************************************************)

\* C6: in every interleaving of concurrent debit attempts against one
\* UserCredits record that started with left_credits = N (its `credits`),
\* the debits applied sum to at most N and left_credits is never negative.
C6_DebitsNeverExceedBalance ==
    /\ TotalApplied <= userCredits.credits
    /\ userCredits.left_credits >= 0

(***************************************************************************)
(* Properties of the data-access layer.  A call is `served` when the store *)
(* answered it rather than failing.                                        *)
(***************************************************************************)

\* The rows of `users` that satisfy a condition, as a set.
RowsWhere(Cond(_)) == { users[i] : i \in { j \in 1..Len(users) : Cond(users[j]) } }

\* C7: for every user inserted by a successful insertUser(u) and not updated
\* since, whatever other users were inserted or updated later: the row that
\* insertUser returned carries every field of u, and findUserByUuid(u.uuid),
\* when served, returns exactly that row.
C7_InsertFindRoundTrip ==
    \A u \in DOMAIN inserted :
        /\ \A f \in DOMAIN inserted[u].user : inserted[u].row[f] = inserted[u].user[f]
        /\ inserted[u].user.uuid = u
        /\ \A resp \in StoreSelect(users, FindUserByUuidQuery(u), TRUE) :
               FindUserRet(resp) = RetRow(inserted[u].row)
        /\ (op.name = "findUserByUuid" /\ op.uuid = u /\ op.up) =>
               ret = RetRow(inserted[u].row)

\* u1 was inserted, then u2 was inserted and updated, then u1 was looked up.
C7_Witness ==
    /\ op.name = "findUserByUuid"
    /\ op.uuid = "u1"
    /\ op.up
    /\ "u1" \in DOMAIN inserted
    /\ Len(users) = 2
    /\ users[1].uuid = "u1"
    /\ users[2].uuid = "u2"
    /\ users[2].nickname = "n2"
    /\ ret.kind = "row"

\* C8 as amended: findUserByEmail never raises; it gives null when the store
\* fails; when served with a non-empty provider it gives the row with that
\* (email, provider) if exactly one row has it and null otherwise; when the
\* provider is omitted or is the empty string it filters on email alone and
\* gives a row only if exactly one row has that email.
C8_FindUserByEmail ==
    op.name = "findUserByEmail" =>
        LET match == IF op.provider = Undefined \/ op.provider = ""
                     THEN RowsWhere(LAMBDA r : r.email = op.email)
                     ELSE RowsWhere(LAMBDA r : /\ r.email = op.email
                                               /\ r.signin_provider = op.provider)
        IN  /\ ret.kind \in {"row", "null"}
            /\ ~op.up => ret = RetNull
            /\ op.up => ret = IF Cardinality(match) = 1
                              THEN RetRow(CHOOSE r \in match : TRUE)
                              ELSE RetNull

\* Two rows share the email; the provider picks one of them.
C8_Witness ==
    /\ op.name = "findUserByEmail"
    /\ op.up
    /\ op.provider = "google"
    /\ Cardinality(RowsWhere(LAMBDA r : r.email = op.email)) = 2
    /\ ret.kind = "row"
    /\ ret.rows[1].signin_provider = "google"

\* C8 as claimed: whenever a provider is given, the row with that
\* (email, provider) is returned if exactly one row has it; only an omitted
\* provider makes the lookup filter on email alone.
C8_FindUserByEmail_AsClaimed ==
    op.name = "findUserByEmail" =>
        LET match == IF op.provider = Undefined
                     THEN RowsWhere(LAMBDA r : r.email = op.email)
                     ELSE RowsWhere(LAMBDA r : /\ r.email = op.email
                                               /\ r.signin_provider = op.provider)
        IN  /\ ret.kind \in {"row", "null"}
            /\ op.up => ret = IF Cardinality(match) = 1
                              THEN RetRow(CHOOSE r \in match : TRUE)
                              ELSE RetNull

\* C9: getUsersByUuids with a missing or empty list returns an empty sequence
\* and issues no query; with a non-empty list it issues one query and, when
\* served, returns exactly the rows whose uuid is in the list, each once.
C9_GetUsersByUuids ==
    op.name = "getUsersByUuids" =>
        IF op.uuids = <<>> \/ op.uuids = <<{}>>
        THEN sent = <<>> /\ ret = RetRows(<<>>)
        ELSE /\ Len(sent) = 1
             /\ ret.kind = "rows"
             /\ op.up =>
                  /\ { ret.rows[i] : i \in 1..Len(ret.rows) }
                        = RowsWhere(LAMBDA r : r.uuid \in op.uuids[1])
                  /\ \A i, j \in 1..Len(ret.rows) :
                        ret.rows[i] = ret.rows[j] => i = j

C9_Witness ==
    /\ op.name = "getUsersByUuids"
    /\ op.uuids = <<{}>>
    /\ Len(users) = 2
    /\ sent = <<>>
    /\ ret = RetRows(<<>>)

C9_WitnessRows ==
    /\ op.name = "getUsersByUuids"
    /\ op.up
    /\ op.uuids = <<{"u2", "u3"}>>
    /\ Len(users) = 2
    /\ Len(ret.rows) = 1

\* A sequence of rows is in descending order of created_at.
Descending(rows) ==
    \A i \in 1..(Len(rows) - 1) : rows[i].created_at >= rows[i + 1].created_at

\* No two users share a created_at.
DistinctTimes ==
    \A i, j \in 1..Len(users) : users[i].created_at = users[j].created_at => i = j

\* What getUsers requests and, when served, returns: the inclusive range
\* [(page-1)*limit, (page-1)*limit + limit - 1] of the users in descending
\* order of created_at, page defaulting to 1 and limit to 50.
GetUsersRange ==
    op.name = "getUsers" =>
        LET page == IF op.pageArg = <<>> THEN 1 ELSE op.pageArg[1]
            limit == IF op.limitArg = <<>> THEN 50 ELSE op.limitArg[1]
            first == (page - 1) * limit
            left == IF Len(users) > first THEN Len(users) - first ELSE 0
        IN  /\ Len(sent) = 1
            /\ sent[1].verb = "select"
            /\ sent[1].order = "desc"
            /\ sent[1].range = <<first, first + limit - 1>>
            /\ ret.kind = "rows"
            /\ op.up =>
                 /\ Len(ret.rows) = IF left < limit THEN left ELSE limit
                 /\ Descending(ret.rows)
                 /\ \A i \in 1..Len(ret.rows) :
                       /\ ret.rows[i] \in RowsWhere(LAMBDA r : TRUE)
                       /\ Cardinality({ k \in 1..Len(users) :
                              users[k].created_at > ret.rows[i].created_at })
                            <= first + i - 1

\* The pages 1, 2, ... fetched with one limit over an unchanged store hold no
\* row twice, are in descending order when put together, and once a short
\* page ends the run they hold every user.
PagesPartition ==
    /\ \A i, j \in 1..Len(scan.rows) : scan.rows[i] = scan.rows[j] => i = j
    /\ Descending(scan.rows)
    /\ scan.ended => Len(scan.rows) = Len(users)

\* C10 as amended: getUsers requests and returns the inclusive range of the
\* descending list, and when no two users share a created_at consecutive
\* pages over an unchanged store are disjoint and concatenate to the full
\* descending list.
C10_GetUsersPages ==
    /\ GetUsersRange
    /\ DistinctTimes => PagesPartition

\* Three users with distinct created_at read in two pages of two.
C10_Witness ==
    /\ op.name = "getUsers"
    /\ op.up
    /\ op.page = 2
    /\ op.limit = 2
    /\ sent[1].range = <<2, 3>>
    /\ Len(users) = 3
    /\ DistinctTimes
    /\ scan.pages = 2
    /\ scan.ended
    /\ Len(scan.rows) = 3

C10_WitnessDefaults ==
    /\ op.name = "getUsers"
    /\ op.pageArg = <<>>
    /\ op.limitArg = <<>>
    /\ sent[1].range = <<0, 49>>
    /\ Len(ret.rows) = 3

\* C10 as claimed: the same, for every content of the store.
C10_GetUsersPages_AsClaimed ==
    /\ GetUsersRange
    /\ PagesPartition

\* C11: a served getUserCountByDate(startTime) returns a map whose keys are
\* the date strings (the text of created_at before the T) of the rows with
\* created_at >= startTime and whose values count those rows per date: rows
\* of one UTC date share one key, every count is at least 1, and the counts
\* sum to the number of rows selected.
C11_UserCountByDate ==
    (op.name = "getUserCountByDate" /\ op.up) =>
        LET sel == { i \in 1..Len(users) : users[i].created_at >= op.startTime }
            key(i) == <<Iso[users[i].created_at][1]>>
        IN  /\ ret.kind = "map"
            /\ DOMAIN ret.map = { key(i) : i \in sel }
            /\ \A k \in DOMAIN ret.map :
                  /\ ret.map[k] = Cardinality({ i \in sel : key(i) = k })
                  /\ ret.map[k] >= 1
            /\ Sum(ret.map, DOMAIN ret.map) = Cardinality(sel)

\* Users created at 03:00 and 23:00 of 2024-01-01 and on 2024-01-02.
C11_Witness ==
    /\ op.name = "getUserCountByDate"
    /\ op.up
    /\ op.startTime = 0
    /\ Len(users) = 3
    /\ ret.kind = "map"
    /\ DOMAIN ret.map = {<<"2024-01-01">>, <<"2024-01-02">>}
    /\ ret.map[<<"2024-01-01">>] = 2
    /\ ret.map[<<"2024-01-02">>] = 1

\* C12: an insertUser of a record whose uuid, or whose email and
\* signin_provider, a stored user already has raises to the caller and leaves
\* the collection as it was, as does every insertUser that raises; so no two
\* stored users ever share a uuid.
C12_InsertConflictRaises ==
    [][ /\ op'.name = "insertUser" =>
             LET dup == \E i \in 1..Len(users) :
                           \/ users[i].uuid = op'.user.uuid
                           \/ /\ users[i].email = op'.user.email
                              /\ users[i].signin_provider = op'.user.signin_provider
                 raised == ret'.kind \in {"throw:" \o Conflict, "throw:" \o Outage}
             IN  /\ dup => raised /\ users' = users
                 /\ raised => users' = users
                 /\ ~raised => /\ ret'.kind = "row"
                               /\ users' = Append(users, ret'.rows[1])
        /\ \A i, j \in 1..Len(users') : users'[i].uuid = users'[j].uuid => i = j
      ]_vars

\* A second user with the uuid of the first, and another email, is refused.
C12_Witness ==
    /\ op.name = "insertUser"
    /\ op.up
    /\ Len(users) = 1
    /\ op.user.uuid = users[1].uuid
    /\ op.user.email # users[1].email
    /\ ret.kind = "throw:" \o Conflict

\* C13: an updateUser(uuid, updates) either returns the updated row, and
\* then exactly the row with that uuid changed, in exactly the fields that
\* `updates` names, to the values it gives; or it returns null without
\* raising and the collection is as it was.  It returns null when no row has
\* the uuid and when the store fails the write.
C13_UpdateUserFrame ==
    [][ op'.name = "updateUser" =>
          LET hit == { i \in 1..Len(users) : users[i].uuid = op'.uuid }
          IN  /\ ret'.kind \in {"row", "null"}
              /\ ret'.kind = "null" => users' = users
              /\ (hit = {} \/ ~op'.up) => ret' = RetNull
              /\ ret'.kind = "row" =>
                   /\ Cardinality(hit) = 1
                   /\ Len(users') = Len(users)
                   /\ \A i \in 1..Len(users) :
                        IF i \in hit
                        THEN /\ ret'.rows[1] = users'[i]
                             /\ \A f \in DOMAIN users[i] :
                                   users'[i][f] = IF f \in DOMAIN op'.updates
                                                  THEN op'.updates[f]
                                                  ELSE users[i][f]
                        ELSE users'[i] = users[i]
      ]_vars

\* The second of two users got another email; its nickname, set earlier,
\* stayed.
C13_Witness ==
    /\ op.name = "updateUser"
    /\ op.up
    /\ op.uuid = "u2"
    /\ op.updates = [email |-> "b@x"]
    /\ Len(users) = 2
    /\ ret.kind = "row"
    /\ ret.rows[1] = users[2]
    /\ users[2].email = "b@x"
    /\ users[2].nickname = "n2"

\* C14: when the store fails a read, no read operation raises:
\* findUserByEmail and findUserByUuid return null, the value they also return
\* when no user matches; getUsers and getUsersByUuids return an empty
\* sequence; getUsersTotal and getUserCountByDate return undefined.  An
\* insertUser that the store fails raises, and it is the only operation that
\* ever raises.
C14_FailSoftReads ==
    LET raised == ret.kind \in {"throw:" \o Conflict, "throw:" \o Outage}
        finds == {"findUserByEmail", "findUserByUuid"}
        noSuchUser ==
            \/ /\ op.name = "findUserByUuid"
               /\ \A i \in 1..Len(users) : users[i].uuid # op.uuid
            \/ /\ op.name = "findUserByEmail"
               /\ \A i \in 1..Len(users) : users[i].email # op.email
    IN  /\ raised => op.name = "insertUser"
        /\ (op.name \in finds /\ (~op.up \/ noSuchUser)) => ret = RetNull
        /\ (op.name \in {"getUsers", "getUsersByUuids"} /\ ~op.up) =>
               ret = RetRows(<<>>)
        /\ (op.name \in {"getUsersTotal", "getUserCountByDate"} /\ ~op.up) =>
               ret = RetUndefined
        /\ (op.name = "insertUser" /\ ~op.up) => ret = RetThrow(Outage)

\* The store failed a lookup of a user it holds.
C14_Witness ==
    /\ op.name = "findUserByUuid"
    /\ ~op.up
    /\ \E i \in 1..Len(users) : users[i].uuid = op.uuid
    /\ ret = RetNull

\* The store failed the reading of a page of a collection that has users.
C14_WitnessList ==
    /\ op.name = "getUsers"
    /\ ~op.up
    /\ Len(users) = 3
    /\ ret = RetRows(<<>>)

\* C15: whatever the provider answers, the poller issues at most maxAttempts
\* (120) status queries; it eventually ends, and then in exactly one of
\* COMPLETED, FAILED and TIMED_OUT: with a result and no error, or with an
\* error and no result; it never holds both a result and an error; and once
\* it has ended it issues no further status query and nothing of it changes.
C15_BoundedSingleOutcome ==
    /\ [](queries <= maxAttempts)
    /\ <>(pc = "done")
    /\ [](pc = "done" => PollerState \in {"COMPLETED", "FAILED", "TIMED_OUT"})
    /\ [](pc = "done" => ((returned # None) # (thrown # None)))
    /\ [](PollerState = "COMPLETED" <=> (pc = "done" /\ thrown = None))
    /\ [](~(returned # None /\ thrown # None))
    /\ [][pc = "done" => (queries' = queries /\ pollerVars' = pollerVars)]_vars

\* The last of the 120 status queries answered completed: the poller ended
\* with the result, after as many queries as it may issue.
C15_Witness ==
    /\ pc = "done"
    /\ queries = maxAttempts
    /\ pending = maxAttempts - 1
    /\ PollerState = "COMPLETED"
    /\ returned = "url1"
    /\ thrown = None

====
